---- MODULE Spec2Model ----
(***************************************************************************)
(* Model of the Birdsong codec component (src/components/BirdsongCodec.tsx) *)
(*                                                                         *)
(* Numbers.  The source computes in IEEE doubles and stores samples in     *)
(* Float32Arrays.  Here every real quantity is a fixed-point integer: the  *)
(* real r is held as the integer r * UNIT, products are rescaled by UNIT   *)
(* and truncated toward zero, sin/cos are read from a table of TURN equal  *)
(* steps of the circle, and log10/pow are computed digit by digit.         *)
(*                                                                         *)
(* Constants.  SAMPLE_RATE, FFT_SIZE, HOP_SIZE, NUM_BANDS, ... are         *)
(* imported from ../constants, which is not part of the source tree; the   *)
(* model gives them small values so that whole buffers can be enumerated.  *)
(***************************************************************************)
EXTENDS Integers, Sequences, FiniteSets, TLC

\* ------------------------------------------------------------ fixed point

\* One unit of the fixed-point representation: the real 1.0.
UNIT == 1000

\* Steps of the circle in the sine table.
TURN == 12

\* 2*pi in fixed point (Math.PI * 2).
TWO_PI == 6283

Abs(x) == IF x < 0 THEN -x ELSE x

Max(a, b) == IF a > b THEN a ELSE b

Min(a, b) == IF a < b THEN a ELSE b

\* Quotient truncated toward zero, as a float division followed by storage
\* does for both signs alike.
TDiv(a, b) == IF (a < 0) = (b < 0) THEN Abs(a) \div Abs(b) ELSE -(Abs(a) \div Abs(b))

\* Product of two fixed-point numbers.
Mul(a, b) == TDiv(a * b, UNIT)

\* Math.floor(a / b) for integers a and b > 0.
Floor(a, b) == a \div b

\* An array filled by a loop (new Float32Array(n), bands.push): the elements
\* as a stored sequence.
AsArray(f) == f \o <<>>

\* Math.sqrt of an integer n >= 0: the largest r with r*r <= n.
RECURSIVE SqrtBin(_, _, _)
SqrtBin(n, lo, hi) ==
  IF hi - lo <= 1 THEN lo
  ELSE LET mid == (lo + hi) \div 2
       IN IF mid * mid <= n THEN SqrtBin(n, mid, hi) ELSE SqrtBin(n, lo, mid)

ISqrt(n) == IF n <= 0 THEN 0 ELSE SqrtBin(n, 0, Min(n, 46340) + 1)

SinTab == <<0, 500, 866, 1000, 866, 500, 0, -500, -866, -1000, -866, -500>>

\* sin and cos of the angle 2*pi*num/den (den > 0).
SinFrac(num, den) == SinTab[(((num * TURN) \div den) % TURN) + 1]

CosFrac(num, den) == SinTab[((((num * TURN) \div den) + 3) % TURN) + 1]

\* Math.sin of a fixed-point angle in radians.
Sin(x) == SinFrac(x, TWO_PI)

\* ------------------------------------------------------------ mel scale

\* Binary digits of the exponent in Log10 / Pow10.
LOG_BITS == 12

LOG_ONE == 4096

\* 10^(2^-k) for k = 1..LOG_BITS, in units of 1/10000.
Root10 == <<31623, 17783, 13335, 11548, 10746, 10366,
            10182, 10090, 10045, 10023, 10011, 10006>>

\* a * b / 10000 for a, b in units of 1/10000, without leaving 32 bits.
MulP(a, b) == (a \div 10000) * b + ((a % 10000) * b) \div 10000

RECURSIVE Pow10Bits(_, _, _)
Pow10Bits(e, k, acc) ==
  IF k > LOG_BITS THEN acc
  ELSE LET bit == (e \div (LOG_ONE \div (2 ^ k))) % 2
       IN Pow10Bits(e, k + 1, IF bit = 1 THEN MulP(acc, Root10[k]) ELSE acc)

RECURSIVE Pow10Int(_)
Pow10Int(n) == IF n <= 0 THEN 10000 ELSE 10 * Pow10Int(n - 1)

\* Math.pow(10, e / LOG_ONE) in units of 1/10000, for e >= 0.
Pow10(e) == Pow10Bits(e % LOG_ONE, 1, Pow10Int(e \div LOG_ONE))

RECURSIVE Log10Bits(_, _, _, _)
Log10Bits(x, k, acc, e) ==
  IF k > LOG_BITS THEN e
  ELSE LET nxt == MulP(acc, Root10[k])
       IN IF nxt <= x
          THEN Log10Bits(x, k + 1, nxt, e + LOG_ONE \div (2 ^ k))
          ELSE Log10Bits(x, k + 1, acc, e)

RECURSIVE Log10Int(_, _)
Log10Int(x, n) == IF x < 10 * Pow10Int(n) THEN n ELSE Log10Int(x, n + 1)

\* Math.log10(x) in units of 1/LOG_ONE, for x >= 1 in units of 1/10000.
Log10(x) ==
  LET n == Log10Int(x, 0)
  IN n * LOG_ONE + Log10Bits(x, 1, Pow10Int(n), 0)

\* hzToMel: 2595 * log10(1 + hz / 700); hz and the result in fixed point.
hzToMel(hz) == (2595 * Log10(10000 + (hz * 10) \div 700) * 125) \div 512

\* melToHz: 700 * (10^(mel / 2595) - 1); mel and the result in fixed point.
melToHz(mel) ==
  LET d == 2595 * 125
      e == (mel \div d) * 512 + ((mel % d) * 512) \div d
  IN 70 * (Pow10(e) - 10000)

\* One band of getMelBands, for loop index i.
MelBand(minMel, step, i) ==
  [start  |-> melToHz(minMel + i * step),
   end    |-> melToHz(minMel + (i + 1) * step),
   center |-> melToHz(minMel + ((2 * i + 1) * step) \div 2)]

\* (maxMel - minMel) / NUM_BANDS
MelStep(nb, maxFreq) == (hzToMel(maxFreq * UNIT) - hzToMel(100 * UNIT)) \div nb

\* getMelBands() for NUM_BANDS = nb and SPEECH_MAX_FREQ = maxFreq (in Hz).
getMelBands(nb, maxFreq) ==
  AsArray([i \in 1..nb |-> MelBand(hzToMel(100 * UNIT), MelStep(nb, maxFreq), i - 1)])

\* ------------------------------------------------------------ constants

\* ../constants is not part of the source tree: small stand-in values.
SAMPLE_RATE == 2400

FFT_SIZE == 4

HOP_SIZE == 2

NUM_BANDS == 2

SPEECH_MAX_FREQ == 1000

BIRD_DATA_START_FREQ == 600

BIRD_DATA_STEP == 300

PITCH_MULTIPLIER == 4

\* const MEL_BANDS = getMelBands();
MEL_BANDS == getMelBands(NUM_BANDS, SPEECH_MAX_FREQ)

\* An absent AudioBuffer (null).  createBuffer never makes a buffer of
\* length 0, so the empty sequence is free to stand for null.
NULL == <<>>

\* JavaScript's non-finite numbers, which decode's pitch recovery can make.
INF == 2000000000

NINF == -2000000000

NAN == 2000000001

IsFinite(x) == x # INF /\ x # NINF /\ x # NAN

\* buffer[j] for a 0-based index j.
At(buf, j) == buf[j + 1]

\* Sum of g[k] over k in lo..hi.
RECURSIVE SumOver(_, _, _)
SumOver(g, lo, hi) == IF lo > hi THEN 0 ELSE g[lo] + SumOver(g, lo + 1, hi)

\* Largest g[k] over k in lo..hi, starting from acc.
RECURSIVE MaxOver(_, _, _, _)
MaxOver(g, lo, hi, acc) ==
  IF lo > hi THEN acc ELSE MaxOver(g, lo + 1, hi, Max(acc, g[lo]))

\* ------------------------------------------------------------ analysis

\* The autocorrelation sum of extractPitch for one candidate period:
\* i = 0, 2, 4, ... while i < buffer.length - period.
Correlation(buffer, period) ==
  LET n == Len(buffer) - period
      terms == IF n <= 0 THEN 0 ELSE (n + 1) \div 2
  IN SumOver([t \in 1..terms |->
                At(buffer, 2 * (t - 1)) * At(buffer, 2 * (t - 1) + period)],
             1, terms)

\* Variants of the period loop: one that lets a later period of equal
\* correlation win, one that also tries maxPeriod.
RECURSIVE PitchSearchLast(_, _, _, _)
PitchSearchLast(buffer, period, maxPeriod, best) ==
  IF period >= maxPeriod THEN best
  ELSE LET c == Correlation(buffer, period)
       IN PitchSearchLast(buffer, period + 1, maxPeriod,
                          IF c >= best[1] THEN <<c, period>> ELSE best)

RECURSIVE PitchSearchClosed(_, _, _, _)
PitchSearchClosed(buffer, period, maxPeriod, best) ==
  IF period > maxPeriod THEN best
  ELSE LET c == Correlation(buffer, period)
       IN PitchSearchClosed(buffer, period + 1, maxPeriod,
                            IF c > best[1] THEN <<c, period>> ELSE best)

\* The period loop of extractPitch: best = <<bestCorrelation, bestPeriod>>.
RECURSIVE PitchSearch(_, _, _, _)
PitchSearch(buffer, period, maxPeriod, best) ==
  IF period >= maxPeriod THEN best
  ELSE LET c == Correlation(buffer, period)
       IN PitchSearch(buffer, period + 1, maxPeriod,
                      IF c > best[1] THEN <<c, period>> ELSE best)

\* Math.sqrt(sum of v*v / length): the RMS of a window.
Rms(buffer) ==
  ISqrt(SumOver([t \in 1..Len(buffer) |-> buffer[t] * buffer[t]], 1, Len(buffer))
        \div Len(buffer))

extractPitch(buffer, sampleRate) ==
  LET minPeriod == Floor(sampleRate, 800)
      maxPeriod == Floor(sampleRate, 70)
      best == PitchSearch(buffer, minPeriod, maxPeriod, <<0, 0>>)
  IN IF Rms(buffer) < 10 THEN 0
     ELSE IF best[2] > 0 THEN (sampleRate * UNIT) \div best[2] ELSE 0

\* The Hann-windowed, zero-padded frame of computeMagnitudeSpectrum.
Windowed(samples) ==
  AsArray([n \in 1..FFT_SIZE |->
             Mul(IF n <= Len(samples) THEN samples[n] ELSE 0,
                 (UNIT - CosFrac(n - 1, FFT_SIZE - 1)) \div 2)])

\* One bin of the direct DFT: the inner loop runs over n = 0, 2, 4, ...
\* and skips the windowed samples that are (near) zero.
Magnitude(w, k) ==
  LET terms == (FFT_SIZE + 1) \div 2
      re == SumOver([t \in 1..terms |->
                       IF Abs(w[2 * t - 1]) > 0
                       THEN Mul(w[2 * t - 1], CosFrac(-(k * 2 * (t - 1)), FFT_SIZE))
                       ELSE 0], 1, terms)
      im == SumOver([t \in 1..terms |->
                       IF Abs(w[2 * t - 1]) > 0
                       THEN Mul(w[2 * t - 1], SinFrac(-(k * 2 * (t - 1)), FFT_SIZE))
                       ELSE 0], 1, terms)
  IN ISqrt(re * re + im * im)

\* magnitudes[0 .. FFT_SIZE/2 - 1], as a sequence.
computeMagnitudeSpectrum(samples) ==
  LET w == Windowed(samples)
  IN AsArray([k \in 1..(FFT_SIZE \div 2) |-> Magnitude(w, k - 1)])

\* Math.floor(hz / binSize) with binSize = SAMPLE_RATE / FFT_SIZE; hz in
\* fixed point.
BinOf(hz) == Floor(hz * FFT_SIZE, SAMPLE_RATE * UNIT)

\* The peak magnitude of the bins startBin..endBin that exist.
BandPeak(magnitudes, startBin, endBin) ==
  MaxOver([k \in 0..Max(endBin, 0) |->
             IF k < Len(magnitudes) THEN At(magnitudes, k) ELSE 0],
          Max(startBin, 0), endBin, 0)

analyzeSpeechFrame(samples) ==
  LET magnitudes == computeMagnitudeSpectrum(samples)
  IN [bandEnergies |->
        AsArray([b \in 1..NUM_BANDS |->
                   BandPeak(magnitudes, BinOf(MEL_BANDS[b].start),
                            BinOf(MEL_BANDS[b].end))]),
      pitch |-> extractPitch(samples, SAMPLE_RATE),
      amplitude |-> Rms(samples)]

\* inputData.slice(start, start + FFT_SIZE)
Slice(data, start) ==
  SubSeq(data, start + 1, Min(start + FFT_SIZE, Len(data)))

\* A variant of the frame count that rounds up.
NumFramesCeil(data) == Floor(Len(data) - FFT_SIZE + HOP_SIZE - 1, HOP_SIZE)

\* Math.floor((inputData.length - FFT_SIZE) / HOP_SIZE)
NumFrames(data) == Floor(Len(data) - FFT_SIZE, HOP_SIZE)

\* ------------------------------------------------------------ synthesis

\* Math.random(): the n-th draw of the stream a call sees, in [0, 1).
RandTab == <<0, 250, 500, 750>>

Rand(seed, n) == RandTab[(((seed + 1) * (n + 1)) % Len(RandTab)) + 1]

\* a * (1 - pos) + b * pos with pos = r / HOP_SIZE, r = i % HOP_SIZE.
Lerp(a, b, r) == TDiv(a * (HOP_SIZE - r) + b * r, HOP_SIZE)

\* The same interpolation where a or b may be NaN or +-Infinity.
LerpJs(a, b, r) ==
  LET ta == a
      tb == IF IsFinite(b) THEN b ELSE IF b = NAN \/ r = 0 THEN NAN ELSE b
  IN IF ta = NAN \/ tb = NAN THEN NAN
     ELSE IF ~IsFinite(ta) /\ ~IsFinite(tb) THEN (IF ta = tb THEN ta ELSE NAN)
     ELSE IF ~IsFinite(ta) THEN ta
     ELSE IF ~IsFinite(tb) THEN tb
     ELSE Lerp(a, b, r)

\* 2 * Math.PI * freq / SAMPLE_RATE, freq in fixed point.
PhaseInc(freq) == TDiv(TWO_PI * TDiv(freq, UNIT), SAMPLE_RATE)

\* let phaseMain = 0; phaseData[i] = Math.random() * 2 * Math.PI
EncInitPhases(c) ==
  [c EXCEPT !.phaseMain = 0,
            !.phaseData = AsArray([b \in 1..NUM_BANDS |->
                                     Mul(Rand(c.seed, c.draws + b - 1), TWO_PI)]),
            !.draws = c.draws + NUM_BANDS]

\* A variant of the voicing test with the threshold ten times higher.
EncVoicedHigh(pitch) == pitch > 500 * UNIT

\* The carrier is sounded on the samples whose interpolated pitch is above 50 Hz.
EncVoiced(pitch) == pitch > 50 * UNIT

\* One iteration of encode's synthesis loop, for sample i.
EncSample(c, i) ==
  LET r == i % HOP_SIZE
      frame == c.frames[(i \div HOP_SIZE) + 1]
      next == c.frames[(i \div HOP_SIZE) + 2]
      pitch == Lerp(frame.pitch, next.pitch, r)
      amp == Lerp(frame.amplitude, next.amplitude, r)
      phaseMain == IF EncVoiced(pitch)
                   THEN c.phaseMain + PhaseInc(pitch * PITCH_MULTIPLIER)
                   ELSE c.phaseMain
      carrier == IF EncVoiced(pitch) THEN Mul(Sin(phaseMain), 800) ELSE 0
      phaseData == AsArray([b \in 1..NUM_BANDS |->
                      c.phaseData[b]
                      + PhaseInc((BIRD_DATA_START_FREQ + (b - 1) * BIRD_DATA_STEP) * UNIT)])
      dataSignal == SumOver([b \in 1..NUM_BANDS |->
                               Mul(Sin(phaseData[b]),
                                   Lerp(frame.bandEnergies[b], next.bandEnergies[b], r))],
                            1, NUM_BANDS)
      sample == Mul(carrier + Mul(dataSignal, 150), amp)
  IN [c EXCEPT !.phaseMain = phaseMain,
               !.phaseData = phaseData,
               !.out = [c.out EXCEPT ![i + 1] = sample]]

\* A variant of the normalisation without its guard: a zero peak makes the
\* gain infinite and every sample 0 * Infinity.
NormalizeUnguarded(data, target) ==
  LET maxVal == MaxOver([k \in 1..Len(data) |-> Abs(data[k])], 1, Len(data), 0)
  IN [k \in 1..Len(data) |->
        IF maxVal = 0 THEN NAN ELSE TDiv(data[k] * target, maxVal)]

\* A variant that scales by the gain rounded to the unit first.
NormalizeCoarse(data, target) ==
  LET maxVal == MaxOver([k \in 1..Len(data) |-> Abs(data[k])], 1, Len(data), 0)
  IN IF maxVal > 0
     THEN [k \in 1..Len(data) |-> data[k] * (target \div maxVal)]
     ELSE data

\* A variant that moves the peak to the target by an offset.
NormalizeShift(data, target) ==
  LET maxVal == MaxOver([k \in 1..Len(data) |-> Abs(data[k])], 1, Len(data), 0)
  IN IF maxVal > 0
     THEN [k \in 1..Len(data) |-> data[k] + (target - maxVal)]
     ELSE data

\* A variant of the peak without Math.abs.
PeakSigned(data) == MaxOver([k \in 1..Len(data) |-> data[k]], 1, Len(data), 0)

\* max over the buffer of Math.abs(outputData[i])
Peak(data) == MaxOver([k \in 1..Len(data) |-> Abs(data[k])], 1, Len(data), 0)

\* if (maxVal > 0) { gain = target / maxVal; outputData[i] *= gain }
Normalize(data, target) ==
  LET maxVal == Peak(data)
  IN IF maxVal > 0
     THEN AsArray([k \in 1..Len(data) |-> TDiv(data[k] * target, maxVal)])
     ELSE data

\* Whether the normalisation branch is taken.
Scaled(data) == Peak(data) > 0

\* ------------------------------------------------------------ decode analysis

\* A variant of the carrier peak search that also looks at limitBin.
RECURSIVE PeakSearchClosed(_, _, _, _)
PeakSearchClosed(magnitudes, k, limitBin, best) ==
  IF k > limitBin THEN best
  ELSE PeakSearchClosed(magnitudes, k + 1, limitBin,
                        IF k < Len(magnitudes) /\ At(magnitudes, k) > best[1]
                        THEN <<At(magnitudes, k), k>> ELSE best)

\* The carrier peak search: k from minBin while k < limitBin, keeping the
\* first bin of maximal magnitude; best = <<maxMag, peakBin>>.  A bin past
\* the end of the array reads undefined, which is never greater.
RECURSIVE PeakSearch(_, _, _, _)
PeakSearch(magnitudes, k, limitBin, best) ==
  IF k >= limitBin THEN best
  ELSE PeakSearch(magnitudes, k + 1, limitBin,
                  IF k < Len(magnitudes) /\ At(magnitudes, k) > best[1]
                  THEN <<At(magnitudes, k), k>> ELSE best)

\* peakBin + 0.5 * (alpha - gamma) / (alpha - 2*beta + gamma), in fixed point.
Refine(peakBin, alpha, beta, gamma) ==
  LET num == alpha - gamma
      den == alpha - 2 * beta + gamma
  IN IF den = 0
     THEN (IF num = 0 THEN NAN ELSE IF num > 0 THEN INF ELSE NINF)
     ELSE peakBin * UNIT + TDiv(num * UNIT, 2 * den)

\* let refinedBin = peakBin; if (peakBin > 0 && peakBin < magnitudes.length - 1)
\* refinedBin = peakBin + 0.5 * (alpha - gamma) / (alpha - 2*beta + gamma)
RefinedBin(magnitudes, peakBin) ==
  IF peakBin > 0 /\ peakBin < Len(magnitudes) - 1
  THEN Refine(peakBin, At(magnitudes, peakBin - 1),
              At(magnitudes, peakBin), At(magnitudes, peakBin + 1))
  ELSE peakBin * UNIT

\* The raw pitch estimate of one cipher frame.
RawPitch(magnitudes) ==
  LET best == PeakSearch(magnitudes, BinOf(600 * UNIT), BinOf(5000 * UNIT), <<0, 0>>)
      refinedBin == RefinedBin(magnitudes, best[2])
  IN IF best[1] > 50
     THEN (IF IsFinite(refinedBin)
           THEN TDiv(TDiv(refinedBin * SAMPLE_RATE, FFT_SIZE), PITCH_MULTIPLIER)
           ELSE refinedBin)
     ELSE 0

\* maxMag of the carrier peak search.
PeakMag(magnitudes) ==
  PeakSearch(magnitudes, BinOf(600 * UNIT), BinOf(5000 * UNIT), <<0, 0>>)[1]

\* pitchBuf.push(pitch); pitchBuf.shift()
PushShift(buf, pitch) == Tail(Append(buf, pitch))

\* sorted[2] of [...pitchBuf].sort((a, b) => a - b).  With a NaN in the
\* buffer the comparator is inconsistent and the order is left to the
\* engine: any element may come third.
MedianSet(buf) ==
  IF \E k \in 1..Len(buf) : buf[k] = NAN
  THEN {buf[k] : k \in 1..Len(buf)}
  ELSE {buf[k] : k \in {j \in 1..Len(buf) :
                          /\ Cardinality({m \in 1..Len(buf) : buf[m] < buf[j]}) <= 2
                          /\ Cardinality({m \in 1..Len(buf) : buf[m] <= buf[j]}) >= 3}}

\* The recovered energy of data band b (0-based): the peak of the bins
\* within 2 of the band's carrier, times 80 and the equalisation factor.
DecBandEnergy(magnitudes, b) ==
  LET centerBin == BinOf((BIRD_DATA_START_FREQ + b * BIRD_DATA_STEP) * UNIT)
      bandMax == BandPeak(magnitudes, centerBin - 2, centerBin + 2)
  IN TDiv(bandMax * 80 * (NUM_BANDS + 2 * b), NUM_BANDS)

\* The decoded frame of one chunk, given the smoothed pitch.
DecodedFrame(magnitudes, smoothedPitch) ==
  [bandEnergies |-> AsArray([b \in 1..NUM_BANDS |-> DecBandEnergy(magnitudes, b - 1)]),
   pitch |-> smoothedPitch,
   amplitude |-> PeakMag(magnitudes)]

\* ------------------------------------------------------------ decode synthesis

\* The resynthesis is voiced on the samples whose interpolated pitch is
\* above 60 Hz (false for NaN).
DecVoiced(p) == p # NAN /\ p > 60 * UNIT

\* The harmonics summed for pitch p: h = 1..40 until h * p > SPEECH_MAX_FREQ.
Harmonics(p) ==
  IF ~IsFinite(p) THEN {}
  ELSE {h \in 1..40 : p * h <= SPEECH_MAX_FREQ * UNIT}

\* A variant of the phase update that never wraps.
WrapPhaseNever(ph, freq) == ph + PhaseInc(freq)

\* harmonicPhases[h] += 2*pi*freq/SAMPLE_RATE; if above 2*pi, minus 2*pi.
WrapPhase(ph, freq) ==
  LET q == ph + PhaseInc(freq)
  IN IF q > TWO_PI THEN q - TWO_PI ELSE q

\* const minMel = hzToMel(100); const maxMel = hzToMel(SPEECH_MAX_FREQ):
\* the same two values for every harmonic.
MinMel == hzToMel(100 * UNIT)

MaxMel == hzToMel(SPEECH_MAX_FREQ * UNIT)

\* The band-index position of a harmonic frequency, in fixed point.
BandIdx(freq) ==
  Floor((hzToMel(freq) - MinMel) * NUM_BANDS, (MaxMel - MinMel) \div UNIT)

\* A variant of the amplitude that serves every position below NUM_BANDS,
\* the last band standing in for the one above it.
HarmonicAmpWhole(frame, next, r, freq) ==
  LET bandIdx == BandIdx(freq)
      b1 == bandIdx \div UNIT
      b2 == Min(b1 + 1, NUM_BANDS - 1)
      frac == bandIdx - b1 * UNIT
  IN IF bandIdx >= 0 /\ bandIdx < NUM_BANDS * UNIT
     THEN LET e1 == Lerp(frame.bandEnergies[b1 + 1], next.bandEnergies[b1 + 1], r)
              e2 == Lerp(frame.bandEnergies[b2 + 1], next.bandEnergies[b2 + 1], r)
          IN TDiv(e1 * (UNIT - frac) + e2 * frac, UNIT)
     ELSE 0

\* The amplitude of a harmonic: the two nearest bands' energies interpolated.
HarmonicAmp(frame, next, r, freq) ==
  LET bandIdx == BandIdx(freq)
      b1 == bandIdx \div UNIT
      frac == bandIdx - b1 * UNIT
  IN IF bandIdx >= 0 /\ bandIdx < (NUM_BANDS - 1) * UNIT
     THEN LET e1 == Lerp(frame.bandEnergies[b1 + 1], next.bandEnergies[b1 + 1], r)
              e2 == Lerp(frame.bandEnergies[b1 + 2], next.bandEnergies[b1 + 2], r)
          IN TDiv(e1 * (UNIT - frac) + e2 * frac, UNIT)
     ELSE 0

\* One iteration of decode's synthesis loop, for sample i.
DecSample(c, i) ==
  LET r == i % HOP_SIZE
      frame == c.frames[(i \div HOP_SIZE) + 1]
      next == c.frames[(i \div HOP_SIZE) + 2]
      p == LerpJs(frame.pitch, next.pitch, r)
      hs == Harmonics(p)
      phases == AsArray([k \in 1..Len(c.harmonicPhases) |->
                   IF (k - 1) \in hs
                   THEN WrapPhase(c.harmonicPhases[k], p * (k - 1))
                   ELSE c.harmonicPhases[k]])
      voicedSum == SumOver([h \in 1..40 |->
                              IF h \in hs
                              THEN Mul(Sin(phases[h + 1]), HarmonicAmp(frame, next, r, p * h))
                              ELSE 0], 1, 40)
      noisePhase == c.noisePhase + 1000 * UNIT
      noise == 2 * Rand(c.seed, c.draws) - UNIT
      sibilance == SumOver([t \in 1..((NUM_BANDS + 1) \div 2) |->
                              Mul(Mul(Sin(TDiv(i * MEL_BANDS[2 * t - 1].center, UNIT) + noisePhase),
                                      Lerp(frame.bandEnergies[2 * t - 1],
                                           next.bandEnergies[2 * t - 1], r)),
                                  noise)], 1, (NUM_BANDS + 1) \div 2)
      sample == IF DecVoiced(p) THEN voicedSum ELSE TDiv(sibilance, 2)
  IN IF DecVoiced(p)
     THEN [c EXCEPT !.harmonicPhases = phases,
                    !.out = [c.out EXCEPT ![i + 1] = TDiv(sample * 3, 1000)]]
     ELSE [c EXCEPT !.noisePhase = noisePhase,
                    !.draws = c.draws + 1,
                    !.out = [c.out EXCEPT ![i + 1] = TDiv(sample * 3, 1000)]]

\* ------------------------------------------------------------ one call

\* The code awaits a timer after every 50th frame and every 5000th sample;
\* the model's buffers are short, so it yields more often.
YieldFrames == 2

YieldSamples == 3

\* The locals of one encodeTobirdsong / decodeFrombirdsong invocation.
\* pc: free | wait (the 10 ms timer) | analyse | synth (a yield inside the
\* loop) | return | throw (the call has reached its end).  mixed records
\* that another call has run between two of this call's steps.
FreeCall ==
  [pc |-> "free", kind |-> "none", auto |-> FALSE, input |-> NULL, seed |-> 0,
   draws |-> 0, numFrames |-> 0, frames |-> <<>>, f |-> 0,
   pitchBuf |-> <<>>, phaseMain |-> 0, phaseData |-> <<>>,
   harmonicPhases |-> <<>>, noisePhase |-> 0, out |-> <<>>, raw |-> <<>>, i |-> 0,
   mixed |-> FALSE]

\* The call as it waits on its first timer: bufferToProcess is bound.
NewCall(kind, input, auto, seed) ==
  [FreeCall EXCEPT !.pc = "wait", !.kind = kind, !.auto = auto,
                   !.input = input, !.seed = seed]

Zeros(n) == AsArray([k \in 1..n |-> 0])

\* frames.push(analyzeSpeechFrame(inputData.slice(start, start + FFT_SIZE)))
\* with start = f * HOP_SIZE
EncFrame(c) == analyzeSpeechFrame(Slice(c.input, c.f * HOP_SIZE))

\* The frames decode's analysis can push for frame f: one per outcome of
\* the median sort.
DecFrames(c) ==
  LET magnitudes == computeMagnitudeSpectrum(Slice(c.input, c.f * HOP_SIZE))
      buf == PushShift(c.pitchBuf, RawPitch(magnitudes))
  IN {<<buf, DecodedFrame(magnitudes, m)>> : m \in MedianSet(buf)}

\* if (f % 50 === 0) await ...   (y = 0: never)
YieldsAt(k, y) == y > 0 /\ k % y = 0

\* A variant of the loop's exit that leaves one frame later.
SynthContinuesLast(c) ==
  c.i < Len(c.input) /\ (c.i \div HOP_SIZE) < c.numFrames

\* if (frameIndex >= numFrames - 1) break, and the loop's own bound.
SynthContinues(c) ==
  c.i < Len(c.input) /\ (c.i \div HOP_SIZE) < c.numFrames - 1

\* const frame = frames[frameIndex]; const next = frames[frameIndex + 1]:
\* an index past the list reads undefined, and the next line's ".pitch" of
\* it is a TypeError, which the catch block takes.
FramesRead(c) == {c.i \div HOP_SIZE, (c.i \div HOP_SIZE) + 1}

FramesDefined(c) == \A idx \in FramesRead(c) : idx >= 0 /\ idx < Len(c.frames)

RECURSIVE EncSynth(_, _)
EncSynth(c, y) ==
  IF SynthContinues(c)
  THEN IF ~FramesDefined(c) THEN {[c EXCEPT !.pc = "throw"]}
       ELSE LET c1 == [EncSample(c, c.i) EXCEPT !.i = c.i + 1]
            IN IF YieldsAt(c.i, y[2]) THEN {[c1 EXCEPT !.pc = "synth"]}
               ELSE EncSynth(c1, y)
  ELSE {[c EXCEPT !.pc = "return", !.raw = c.out, !.out = Normalize(c.out, 950)]}

RECURSIVE EncAnalyse(_, _)
EncAnalyse(c, y) ==
  IF c.f < c.numFrames
  THEN LET c1 == [c EXCEPT !.frames = Append(@, EncFrame(c)), !.f = c.f + 1]
       IN IF YieldsAt(c.f, y[1]) THEN {[c1 EXCEPT !.pc = "analyse"]} ELSE EncAnalyse(c1, y)
  ELSE EncSynth(EncInitPhases(c), y)

RECURSIVE DecSynth(_, _)
DecSynth(c, y) ==
  IF SynthContinues(c)
  THEN IF ~FramesDefined(c) THEN {[c EXCEPT !.pc = "throw"]}
       ELSE LET c1 == [DecSample(c, c.i) EXCEPT !.i = c.i + 1]
            IN IF YieldsAt(c.i, y[2]) THEN {[c1 EXCEPT !.pc = "synth"]}
               ELSE DecSynth(c1, y)
  ELSE {[c EXCEPT !.pc = "return", !.raw = c.out, !.out = Normalize(c.out, 850)]}

RECURSIVE DecAnalyse(_, _)
DecAnalyse(c, y) ==
  IF c.f < c.numFrames
  THEN UNION {LET c1 == [c EXCEPT !.pitchBuf = fr[1],
                                  !.frames = Append(@, fr[2]), !.f = c.f + 1]
              IN IF YieldsAt(c.f, y[1]) THEN {[c1 EXCEPT !.pc = "analyse"]}
                 ELSE DecAnalyse(c1, y)
              : fr \in DecFrames(c)}
  ELSE DecSynth([c EXCEPT !.harmonicPhases = Zeros(64), !.noisePhase = 0], y)

\* Variants of the length test: one that lets a buffer of FFT_SIZE samples
\* through, one that also rejects a buffer of a single frame.
TooShortNegative(data) == NumFrames(data) < 0

TooShortOneFrame(data) == NumFrames(data) <= 1

\* if (numFrames <= 0) throw new Error("Audio too short")
TooShort(data) == NumFrames(data) <= 0

\* A variant of the output buffer that holds the analysed hops only.
NewOutputFrames(data) == Zeros(NumFrames(data) * HOP_SIZE)

\* ctx.createBuffer(1, length, sampleRate).getChannelData(0): length zeros.
NewOutput(data) == Zeros(Len(data))

\* The try block from its start to the first yield.
Begin(c, y) ==
  IF TooShort(c.input) THEN {[c EXCEPT !.pc = "throw"]}
  ELSE LET c1 == [c EXCEPT !.numFrames = NumFrames(c.input),
                           !.out = NewOutput(c.input),
                           !.pitchBuf = IF c.kind = "dec" THEN Zeros(5) ELSE <<>>]
       IN IF c.kind = "enc" THEN EncAnalyse(c1, y) ELSE DecAnalyse(c1, y)

\* The call from where it waits up to its next await or its end; y gives
\* the yield periods <<frames, samples>>.
Resume(c, y) ==
  IF c.pc = "wait" THEN Begin(c, y)
  ELSE IF c.pc = "analyse"
       THEN (IF c.kind = "enc" THEN EncAnalyse(c, y) ELSE DecAnalyse(c, y))
       ELSE (IF c.kind = "enc" THEN EncSynth(c, y) ELSE DecSynth(c, y))

\* The calls a run without any yield can end in.
Solo(kind, input, seed) == Resume(NewCall(kind, input, FALSE, seed), <<0, 0>>)

\* ------------------------------------------------------------ state

VARIABLES
  mode,           \* useState<ProcessingMode>: "idle" | "recording"
  recordedAudio,  \* the stored buffers, NULL when absent
  encodedAudio,
  decodedAudio,
  isProcessing,   \* useState(false)
  status,         \* the status line
  calls,          \* the encode / decode invocations in flight, by slot
  recorder,       \* the MediaRecorder and its onstop handler
  upload,         \* TRUE while a file's decodeAudioData is awaited
  events,         \* how many times the user has acted
  returned,       \* what the call that ended last returned
  melN,           \* getMelBands: NUM_BANDS, SPEECH_MAX_FREQ, the loop index,
  melMax,         \* the bands pushed so far and whether it has returned
  melBands,
  melDone,
  probe           \* one of the pure helpers run on its own: its name, its
                  \* arguments, its result and whether it has returned

vars == <<mode, recordedAudio, encodedAudio, decodedAudio, isProcessing, status,
          calls, recorder, upload, events, returned, melN, melMax, melBands,
          melDone, probe>>

stored == <<recordedAudio, encodedAudio, decodedAudio>>

melVars == <<melN, melMax, melBands, melDone, probe>>

uiVars == <<mode, recorder, upload>>

\* How many invocations the model lets be in flight at once.
MaxCalls == 2

CallIds == 1..MaxCalls

\* The Math.random streams a call may see.
MaxSeed == 0

Seeds == 0..MaxSeed

\* The sample values of the buffers the environment delivers.
SampleVals == {-500, 0, 500}

\* Buffers are a pattern of PatLen samples repeated up to a length of at
\* most MaxLen: every buffer of up to PatLen samples, and the periodic ones
\* beyond.
PatLen == 3

MaxLen == 10

Tile(pat, n) == [k \in 1..n |-> pat[((k - 1) % Len(pat)) + 1]]

AllBuffers == {Tile(pat, n) : pat \in [1..PatLen -> SampleVals], n \in 1..MaxLen}

NoReturn ==
  [kind |-> "none", input |-> NULL, seed |-> 0, auto |-> FALSE, error |-> FALSE,
   result |-> NULL, raw |-> <<>>, frames |-> <<>>, mixed |-> FALSE]

\* The record of a call that has ended in c (pc "return" or "throw").
ReturnOf(c) ==
  [kind |-> c.kind, input |-> c.input, seed |-> c.seed, auto |-> c.auto,
   error |-> (c.pc = "throw"),
   result |-> IF c.pc = "throw" THEN NULL ELSE c.out,
   raw |-> c.raw, frames |-> c.frames, mixed |-> c.mixed]

\* The state after construction, apart from the status line and the buffers.
InitComponent ==
  /\ mode = "idle"
  /\ isProcessing = FALSE
  /\ calls = [id \in CallIds |-> FreeCall]
  /\ recorder = "inactive"
  /\ upload = FALSE
  /\ events = 0
  /\ returned = NoReturn

\* No helper is run on its own.
NoProbe == [fn |-> "none", args |-> <<>>, out |-> <<>>, done |-> FALSE]

\* const MEL_BANDS = getMelBands(), at module load.
InitMelLoaded ==
  /\ melN = NUM_BANDS
  /\ melMax = SPEECH_MAX_FREQ
  /\ melBands = MEL_BANDS
  /\ melDone = TRUE
  /\ probe = NoProbe

\* ------------------------------------------------------------ calls

\* A variant in which the data-carrier phases live outside the call: a call
\* inside its synthesis loop resumes with those another encode has left.
SharedLocals(cs, id) ==
  LET others == {j \in DOMAIN cs : j # id /\ cs[j].kind = "enc" /\ cs[j].pc = "synth"}
  IN IF cs[id].kind = "enc" /\ cs[id].pc = "synth" /\ others # {}
     THEN [cs[id] EXCEPT !.phaseData = cs[CHOOSE j \in others : TRUE].phaseData,
                         !.phaseMain = cs[CHOOSE j \in others : TRUE].phaseMain]
     ELSE cs[id]

\* The locals a call resumes with: its own slot.
CallLocals(cs, id) == cs[id]

Yields == <<YieldFrames, YieldSamples>>

\* The outcomes of resuming call id.
Outcomes(id) == Resume(CallLocals(calls, id), Yields)

\* The slot a new invocation takes: the first free one.
FreeSlot(id) ==
  /\ calls[id].pc = "free"
  /\ \A j \in CallIds : j < id => calls[j].pc # "free"

\* encodeTobirdsong / decodeFrombirdsong up to the first await:
\* setIsProcessing(true); setStatus(...); await the 10 ms timer.
StartCall(id, kind, input, auto, seed) ==
  /\ FreeSlot(id)
  /\ calls' = [calls EXCEPT ![id] = NewCall(kind, input, auto, seed)]
  /\ isProcessing' = TRUE
  /\ status' = IF kind = "enc" THEN "encoding" ELSE "decoding"

\* onClick={() => encodeTobirdsong()}, disabled={!recordedAudio || isProcessing}
ClickEncode ==
  /\ recordedAudio # NULL
  /\ ~isProcessing
  /\ \E id \in CallIds, seed \in Seeds :
       StartCall(id, "enc", recordedAudio, FALSE, seed)
  /\ UNCHANGED <<stored, uiVars, returned, melVars>>

\* onClick={() => decodeFrombirdsong()}, disabled={!encodedAudio || isProcessing}
ClickDecode ==
  /\ encodedAudio # NULL
  /\ ~isProcessing
  /\ \E id \in CallIds, seed \in Seeds :
       StartCall(id, "dec", encodedAudio, FALSE, seed)
  /\ UNCHANGED <<stored, uiVars, returned, melVars>>

\* The slots after call id has run up to c: every other call that is
\* between two of its own steps has now been interleaved with.
Interleave(cs, id, c) ==
  [j \in CallIds |->
     IF j = id THEN c
     ELSE IF cs[j].pc \in {"analyse", "synth"} THEN [cs[j] EXCEPT !.mixed = TRUE]
     ELSE cs[j]]

\* A timer fires and the call runs to its next await inside a loop.
Yield(id, c) ==
  /\ c.pc \in {"analyse", "synth"}
  /\ calls' = Interleave(calls, id, c)
  /\ UNCHANGED <<stored, isProcessing, status, uiVars, returned, melVars>>

\* A variant of the failure that drops the stored results.
ThrowClears(id, c) ==
  /\ c.pc = "throw"
  /\ returned' = ReturnOf(c)
  /\ calls' = Interleave(calls, id, FreeCall)
  /\ status' = "error_too_short"
  /\ isProcessing' = FALSE
  /\ encodedAudio' = NULL
  /\ decodedAudio' = NULL
  /\ UNCHANGED <<recordedAudio, uiVars, melVars>>

\* throw new Error("Audio too short"); catch: setStatus('Error: ...');
\* return null; finally: setIsProcessing(false).
Throw(id, c) ==
  /\ c.pc = "throw"
  /\ returned' = ReturnOf(c)
  /\ calls' = Interleave(calls, id, FreeCall)
  /\ status' = "error_too_short"
  /\ isProcessing' = FALSE
  /\ UNCHANGED <<stored, uiVars, melVars>>

\* encode's end when nothing awaits it: setEncodedAudio(outBuffer);
\* setStatus; return outBuffer; finally: setIsProcessing(false).
EncodeReturn(id, c) ==
  /\ c.pc = "return"
  /\ c.kind = "enc"
  /\ ~c.auto
  /\ returned' = ReturnOf(c)
  /\ encodedAudio' = c.out
  /\ calls' = Interleave(calls, id, FreeCall)
  /\ status' = "encoded"
  /\ isProcessing' = FALSE
  /\ UNCHANGED <<recordedAudio, decodedAudio, uiVars, melVars>>

\* A variant of the pipeline that decodes the captured buffer instead of the
\* buffer encode returned.
EncodeReturnAutoCaptured(id, c) ==
  /\ c.pc = "return"
  /\ c.kind = "enc"
  /\ c.auto
  /\ returned' = ReturnOf(c)
  /\ encodedAudio' = c.out
  /\ \E seed \in Seeds :
       calls' = Interleave(calls, id, NewCall("dec", c.input, FALSE, seed))
  /\ status' = "decoding"
  /\ isProcessing' = TRUE
  /\ UNCHANGED <<recordedAudio, decodedAudio, uiVars, melVars>>

\* encode's end inside onstop: the handler's continuation runs in the same
\* task, "if (encoded) await decodeFrombirdsong(encoded)", up to decode's
\* first await.
EncodeReturnAuto(id, c) ==
  /\ c.pc = "return"
  /\ c.kind = "enc"
  /\ c.auto
  /\ returned' = ReturnOf(c)
  /\ encodedAudio' = c.out
  /\ \E seed \in Seeds :
       calls' = Interleave(calls, id, NewCall("dec", c.out, FALSE, seed))
  /\ status' = "decoding"
  /\ isProcessing' = TRUE
  /\ UNCHANGED <<recordedAudio, decodedAudio, uiVars, melVars>>

\* decode's end: setDecodedAudio(outBuffer); setStatus; return outBuffer;
\* finally: setIsProcessing(false).
DecodeReturn(id, c) ==
  /\ c.pc = "return"
  /\ c.kind = "dec"
  /\ returned' = ReturnOf(c)
  /\ decodedAudio' = c.out
  /\ calls' = Interleave(calls, id, FreeCall)
  /\ status' = "decoded"
  /\ isProcessing' = FALSE
  /\ UNCHANGED <<recordedAudio, encodedAudio, uiVars, melVars>>

\* The task that resumes call id, whichever way it ends.
CallStep(id) ==
  /\ calls[id].pc \in {"wait", "analyse", "synth"}
  /\ UNCHANGED events
  /\ \E c \in Outcomes(id) :
       \/ Yield(id, c)
       \/ Throw(id, c)
       \/ EncodeReturn(id, c)
       \/ DecodeReturn(id, c)

\* The same inside the recording pipeline.
CallStepAuto(id) ==
  /\ calls[id].pc \in {"wait", "analyse", "synth"}
  /\ calls[id].kind = "enc"
  /\ calls[id].auto
  /\ UNCHANGED events
  /\ \E c \in Outcomes(id) : EncodeReturnAuto(id, c)

\* ------------------------------------------------------------ the codec alone

\* A speech buffer or a birdsong buffer has been loaded and nothing runs.
InitCodec ==
  /\ InitComponent
  /\ InitMelLoaded
  /\ decodedAudio = NULL
  /\ \E b \in AllBuffers :
       \/ recordedAudio = b /\ encodedAudio = NULL /\ status = "speech_loaded"
       \/ recordedAudio = NULL /\ encodedAudio = b /\ status = "bird_loaded"

EncodeClicked == ClickEncode /\ UNCHANGED events

DecodeClicked == ClickDecode /\ UNCHANGED events

NextCodec ==
  \/ EncodeClicked
  \/ DecodeClicked
  \/ \E id \in CallIds : CallStep(id)

SpecCodec == InitCodec /\ [][NextCodec]_vars

\* ------------------------------------------------------------ getMelBands

\* The NUM_BANDS and SPEECH_MAX_FREQ (in kHz) getMelBands may be built for.
MaxMelBands == 5

MaxMelFreq == 8

\* A variant of the loop condition that runs one turn more.
MelLoopCondInclusive(i, nb) == i <= nb

\* for (let i = 0; i < NUM_BANDS; i++)
MelLoopCond(i, nb) == i < nb

\* getMelBands is entered: bands = [].
InitMel ==
  /\ InitComponent
  /\ status = "ready"
  /\ recordedAudio = NULL
  /\ encodedAudio = NULL
  /\ decodedAudio = NULL
  /\ melN \in 1..MaxMelBands
  /\ melMax \in {1000 * k : k \in 1..MaxMelFreq}
  /\ melBands = <<>>
  /\ melDone = FALSE
  /\ probe = NoProbe

\* One turn of the loop: bands.push({start, end, center}).
MelPush ==
  /\ ~melDone
  /\ MelLoopCond(Len(melBands), melN)
  /\ melBands' = Append(melBands,
                        MelBand(hzToMel(100 * UNIT), MelStep(melN, melMax), Len(melBands)))
  /\ UNCHANGED <<melN, melMax, melDone, probe, stored, isProcessing, status,
                 calls, uiVars, events, returned>>

\* return bands
MelReturn ==
  /\ ~melDone
  /\ ~MelLoopCond(Len(melBands), melN)
  /\ melDone' = TRUE
  /\ UNCHANGED <<melN, melMax, melBands, probe, stored, isProcessing, status,
                 calls, uiVars, events, returned>>

NextMel == MelPush \/ MelReturn

SpecMel == InitMel /\ [][NextMel]_vars

\* ------------------------------------------------------------ the helpers alone

\* The component as it is while a helper is looked at on its own.
InitHelper ==
  /\ InitComponent
  /\ status = "ready"
  /\ recordedAudio = NULL
  /\ encodedAudio = NULL
  /\ decodedAudio = NULL
  /\ melN = NUM_BANDS
  /\ melMax = SPEECH_MAX_FREQ
  /\ melBands = MEL_BANDS
  /\ melDone = TRUE

helperVars == <<stored, isProcessing, status, calls, uiVars, events, returned,
                melN, melMax, melBands, melDone>>

\* The helper called with args, before its return.
Called(fn, args) == [fn |-> fn, args |-> args, out |-> <<>>, done |-> FALSE]

\* The helper returns out.
Returns(fn, out) ==
  /\ probe.fn = fn
  /\ ~probe.done
  /\ probe' = [probe EXCEPT !.out = out, !.done = TRUE]
  /\ UNCHANGED helperVars

\* ------------------------------------------------------------ extractPitch

\* The windows extractPitch is tried on: PitchLen samples, all zero but for
\* up to three of them, which are plus or minus one amplitude.
PitchLen == 15

PulseAmps == {10, 500}

PitchRates == {800, 1000}

PulseBuffer(n, P, neg, amp) ==
  [k \in 1..n |-> IF k \in P THEN (IF k \in neg THEN -amp ELSE amp) ELSE 0]

PulseBuffers(n) ==
  UNION {{PulseBuffer(n, P, neg, amp) : neg \in SUBSET P, amp \in PulseAmps} :
           P \in {{}} \cup {{a, b, c} : a, b, c \in 1..n}}

InitPitch ==
  /\ InitHelper
  /\ \E buffer \in PulseBuffers(PitchLen), sampleRate \in PitchRates :
       probe = Called("extractPitch", <<buffer, sampleRate>>)

PitchReturn == Returns("extractPitch", extractPitch(probe.args[1], probe.args[2]))

NextPitch == PitchReturn

SpecPitch == InitPitch /\ [][NextPitch]_vars

\* ------------------------------------------------------------ carrier recovery

\* The spectra the carrier recovery is tried on: MagLen bins, all zero but
\* for up to three of them.  They are longer than the stand-in FFT_SIZE / 2,
\* so that the bin of 5000 Hz lies inside them, as it does for a sample
\* rate above 10 kHz.
MagLen == 10

MagVals == {50, 100, 200}

MagArrays(n) ==
  UNION {[1..n -> {0}] \cup
           {[k \in 1..n |-> IF k = a THEN x ELSE IF k = b THEN y
                             ELSE IF k = c THEN z ELSE 0] :
              x, y, z \in MagVals} :
         a, b, c \in 1..n}

InitPeak ==
  /\ InitHelper
  /\ \E magnitudes \in MagArrays(MagLen) : probe = Called("rawPitch", <<magnitudes>>)

\* The pitch recovery of one frame: maxMag, peakBin, refinedBin (peakBin
\* where the threshold is not passed) and the pitch.
PeakReturn ==
  Returns("rawPitch",
          LET magnitudes == probe.args[1]
              best == PeakSearch(magnitudes, BinOf(600 * UNIT), BinOf(5000 * UNIT),
                                 <<0, 0>>)
          IN [maxMag |-> best[1], peakBin |-> best[2],
              refinedBin |-> IF best[1] > 50 THEN RefinedBin(magnitudes, best[2])
                             ELSE best[2] * UNIT,
              pitch |-> RawPitch(magnitudes)])

NextPeak == PeakReturn

SpecPeak == InitPeak /\ [][NextPeak]_vars

\* ------------------------------------------------------------ pitch smoothing

\* The spectra of the frames the smoothing is tried on: a silent one, a
\* carrier in bin 2, a carrier in bin 3, and a flat one.
SmoothMags ==
  {[k \in 1..MagLen |-> 0],
   [k \in 1..MagLen |-> IF k = 3 THEN 100 ELSE 0],
   [k \in 1..MagLen |-> IF k = 4 THEN 200 ELSE 0],
   [k \in 1..MagLen |-> IF k <= 3 THEN 100 ELSE 0]}

\* How many frames the smoothing is followed over.
MaxSmoothFrames == 5

\* const pitchBuf = new Array(5).fill(0), before the first frame.
InitSmooth ==
  /\ InitHelper
  /\ probe = [fn |-> "smooth", args |-> <<>>,
              out |-> [pitchBuf |-> Zeros(5), pitch |-> <<>>], done |-> FALSE]

\* One frame of decode's analysis loop as far as the pitch goes: the raw
\* pitch is pushed, the oldest value shifted out, and the third of the
\* sorted copy stored.  args lists the raw pitches, out.pitch the stored ones.
SmoothFrame ==
  /\ probe.fn = "smooth"
  /\ Len(probe.args) < MaxSmoothFrames
  /\ \E magnitudes \in SmoothMags :
       LET buf == PushShift(probe.out.pitchBuf, RawPitch(magnitudes))
       IN \E smoothedPitch \in MedianSet(buf) :
            probe' = [probe EXCEPT !.args = Append(@, RawPitch(magnitudes)),
                                   !.out = [pitchBuf |-> buf,
                                            pitch |-> Append(@.pitch, smoothedPitch)]]
  /\ UNCHANGED helperVars

NextSmooth == SmoothFrame

SpecSmooth == InitSmooth /\ [][NextSmooth]_vars

\* ------------------------------------------------------------ harmonic amplitude

\* The harmonic frequencies the amplitude is tried on: the multiples of
\* SPEECH_MAX_FREQ / HarmDiv that a voiced sample can have, above 60 Hz and
\* up to SPEECH_MAX_FREQ.
HarmDiv == 25

HarmFreqs ==
  {f \in {(k * SPEECH_MAX_FREQ * UNIT) \div HarmDiv : k \in 1..HarmDiv} : f > 60 * UNIT}

\* The band energies of the two frames around the sample.
EnergyVals == {0, 400, 1000}

InitHarm ==
  /\ InitHelper
  /\ \E e \in [1..NUM_BANDS -> EnergyVals], n \in [1..NUM_BANDS -> EnergyVals],
        r \in 0..(HOP_SIZE - 1), freq \in HarmFreqs :
       probe = Called("harmonicAmp", <<[bandEnergies |-> e], [bandEnergies |-> n], r, freq>>)

\* The band-index position and the amplitude of one harmonic.
HarmReturn ==
  Returns("harmonicAmp",
          [bandIdx |-> BandIdx(probe.args[4]),
           amp |-> HarmonicAmp(probe.args[1], probe.args[2], probe.args[3],
                               probe.args[4])])

NextHarm == HarmReturn

SpecHarm == InitHarm /\ [][NextHarm]_vars

\* ------------------------------------------------------------ decode's synthesis

\* The frame lists decode's synthesis loop is followed on, one sample at a
\* time: VoiceFrames frames whose stored pitch is one of VoicePitches.
VoiceFrames == 4

VoicePitches == {0, 70 * UNIT, 150 * UNIT, 400 * UNIT, NAN}

VoiceFrame(pitch) ==
  [bandEnergies |-> [b \in 1..NUM_BANDS |-> 400 * b], pitch |-> pitch,
   amplitude |-> 100]

\* The call at the head of the synthesis loop: harmonicPhases = new
\* Float32Array(64), noisePhase = 0, i = 0.
VoiceCall(frames) ==
  [NewCall("dec", Zeros(Len(frames) * HOP_SIZE + FFT_SIZE), FALSE, 0)
     EXCEPT !.pc = "synth", !.numFrames = Len(frames), !.frames = frames,
            !.f = Len(frames), !.pitchBuf = Zeros(5),
            !.out = Zeros(Len(frames) * HOP_SIZE + FFT_SIZE),
            !.harmonicPhases = Zeros(64)]

InitVoice ==
  /\ InitHelper
  /\ \E pitches \in [1..VoiceFrames -> VoicePitches] :
       probe = [fn |-> "synth", args |-> <<>>, done |-> FALSE,
                out |-> VoiceCall([f \in 1..VoiceFrames |-> VoiceFrame(pitches[f])])]

\* One turn of the synthesis loop.
VoiceSample ==
  /\ probe.fn = "synth"
  /\ ~probe.done
  /\ SynthContinues(probe.out)
  /\ FramesDefined(probe.out)
  /\ probe' = [probe EXCEPT !.out = [DecSample(probe.out, probe.out.i)
                                      EXCEPT !.i = probe.out.i + 1]]
  /\ UNCHANGED helperVars

\* The loop is left.
VoiceBreak ==
  /\ probe.fn = "synth"
  /\ ~probe.done
  /\ ~SynthContinues(probe.out)
  /\ probe' = [probe EXCEPT !.done = TRUE]
  /\ UNCHANGED helperVars

NextVoice == VoiceSample \/ VoiceBreak

SpecVoice == InitVoice /\ [][NextVoice]_vars

\* ------------------------------------------------------------ the component

\* The buffers a recording or a file delivers to the component: one too
\* short for a frame, one long enough for voiced frames.
Pool ==
  {Tile(<<500>>, FFT_SIZE),
   Tile(<<500, 500, 0>>, FFT_SIZE + 3 * HOP_SIZE)}

\* How many times the user acts (a click, a file) in one behaviour.
MaxEvents == 3

UserEvent ==
  /\ events < MaxEvents
  /\ events' = events + 1

Init ==
  /\ InitComponent
  /\ status = "ready"
  /\ InitMelLoaded
  /\ recordedAudio = NULL
  /\ encodedAudio = NULL
  /\ decodedAudio = NULL

UserEncode == UserEvent /\ ClickEncode

UserDecode == UserEvent /\ ClickDecode

\* handleFileUpload up to its awaits (arrayBuffer, decodeAudioData); the
\* input is disabled while isProcessing.
FileChosen ==
  /\ UserEvent
  /\ ~isProcessing
  /\ ~upload
  /\ upload' = TRUE
  /\ UNCHANGED <<stored, isProcessing, status, calls, mode, recorder, returned, melVars>>

\* handleFileUpload after decodeAudioData: a name with 'bird' in it loads
\* the cipher, any other the speech.
FileLoaded ==
  /\ upload
  /\ \E b \in Pool, bird \in BOOLEAN :
       IF bird
       THEN /\ encodedAudio' = b
            /\ recordedAudio' = NULL
            /\ status' = "bird_loaded"
       ELSE /\ recordedAudio' = b
            /\ encodedAudio' = NULL
            /\ status' = "speech_loaded"
  /\ decodedAudio' = NULL
  /\ upload' = FALSE
  /\ UNCHANGED <<isProcessing, calls, mode, recorder, events, returned, melVars>>

\* catch: setStatus('File load error: ...')
FileFailed ==
  /\ upload
  /\ upload' = FALSE
  /\ status' = "file_error"
  /\ UNCHANGED <<stored, isProcessing, calls, mode, recorder, events, returned, melVars>>

\* startRecording: the button is disabled while isProcessing and starts a
\* recording when mode is idle.  One recorder at a time is modelled.
StartRecording ==
  /\ UserEvent
  /\ ~isProcessing
  /\ mode = "idle"
  /\ recorder = "inactive"
  /\ recorder' = "recording"
  /\ mode' = "recording"
  /\ status' = "recording"
  /\ encodedAudio' = NULL
  /\ decodedAudio' = NULL
  /\ UNCHANGED <<recordedAudio, isProcessing, calls, upload, returned, melVars>>

\* stopRecording from the button (disabled while isProcessing).
StopClicked ==
  /\ UserEvent
  /\ ~isProcessing
  /\ mode = "recording"
  /\ recorder = "recording"
  /\ recorder' = "stopped"
  /\ mode' = "idle"
  /\ UNCHANGED <<stored, isProcessing, status, calls, upload, returned, melVars>>

\* stopRecording from the MAX_RECORDING_TIME_MS timer.
StopTimeout ==
  /\ recorder = "recording"
  /\ recorder' = "stopped"
  /\ mode' = "idle"
  /\ UNCHANGED <<stored, isProcessing, status, calls, upload, events, returned, melVars>>

\* onstop with no chunk: setStatus('Error: No audio data captured').
OnStopEmpty ==
  /\ recorder = "stopped"
  /\ recorder' = "inactive"
  /\ status' = "no_audio"
  /\ UNCHANGED <<stored, isProcessing, calls, mode, upload, events, returned, melVars>>

\* onstop up to its awaits (blob.arrayBuffer, decodeAudioData).
OnStop ==
  /\ recorder = "stopped"
  /\ recorder' = "decoding"
  /\ UNCHANGED <<stored, isProcessing, status, calls, mode, upload, events, returned, melVars>>

\* catch: setStatus('Processing failed: ...')
OnStopFailed ==
  /\ recorder = "decoding"
  /\ recorder' = "inactive"
  /\ status' = "processing_failed"
  /\ UNCHANGED <<stored, isProcessing, calls, mode, upload, events, returned, melVars>>

\* onstop after decodeAudioData: setRecordedAudio(mono), then
\* encodeTobirdsong(mono) up to its first await.
Captured ==
  /\ recorder = "decoding"
  /\ recorder' = "inactive"
  /\ \E b \in Pool, id \in CallIds, seed \in Seeds :
       /\ recordedAudio' = b
       /\ StartCall(id, "enc", b, TRUE, seed)
  /\ UNCHANGED <<encodedAudio, decodedAudio, mode, upload, events, returned, melVars>>

Next ==
  \/ FileChosen
  \/ FileLoaded
  \/ FileFailed
  \/ StartRecording
  \/ StopClicked
  \/ StopTimeout
  \/ OnStopEmpty
  \/ OnStop
  \/ OnStopFailed
  \/ Captured
  \/ UserEncode
  \/ UserDecode
  \/ \E id \in CallIds : CallStep(id)
  \/ \E id \in CallIds : CallStepAuto(id)

Spec == Init /\ [][Next]_vars

\* ------------------------------------------------------------ properties

NonSilent(data) == \E k \in 1..Len(data) : data[k] # 0

Accepted == returned.kind # "none" /\ ~returned.error

\* C1: an accepted encode or decode call returns a buffer with exactly as
\* many samples as its input.
C1_LengthPreserved ==
  Accepted => Len(returned.result) = Len(returned.input)

\* A decode of an encode's output has returned: three stored buffers of
\* one length.
C1_Witness ==
  /\ Accepted
  /\ returned.kind = "dec"
  /\ recordedAudio # NULL
  /\ returned.input = encodedAudio
  /\ returned.result = decodedAudio
  /\ Len(decodedAudio) = Len(recordedAudio)
  /\ Len(recordedAudio) > FFT_SIZE + HOP_SIZE

\* C2: a call on a buffer of at most FFT_SIZE samples, encode or decode,
\* ends in the too-short error and returns no buffer.
C2_ShortRejected ==
  (returned.kind # "none" /\ Len(returned.input) <= FFT_SIZE)
    => (returned.error /\ returned.result = NULL)

\* A decode of exactly FFT_SIZE samples has been rejected.
C2_Witness ==
  /\ returned.kind = "dec"
  /\ Len(returned.input) = FFT_SIZE
  /\ returned.error
  /\ returned.result = NULL

\* C3: a call ends in the too-short error exactly when its buffer has fewer
\* than FFT_SIZE + HOP_SIZE samples; every other call can always run on and
\* ends with an output buffer.
C3_OnlyTooShort ==
  /\ returned.kind # "none" =>
       /\ returned.error <=> Len(returned.input) < FFT_SIZE + HOP_SIZE
       /\ ~returned.error => returned.result # NULL
  /\ \A id \in CallIds :
       calls[id].pc # "free" =>
         /\ calls[id].pc \in {"wait", "analyse", "synth"}
         /\ Outcomes(id) # {}
         /\ \A c \in Outcomes(id) :
              (c.pc = "throw") => Len(c.input) < FFT_SIZE + HOP_SIZE

\* An encode of exactly FFT_SIZE + HOP_SIZE samples has returned a buffer.
C3_Witness ==
  /\ returned.kind = "enc"
  /\ Len(returned.input) = FFT_SIZE + HOP_SIZE
  /\ ~returned.error
  /\ returned.result # NULL
  /\ encodedAudio = returned.result

\* C5 as stated: every accepted encode of a buffer with a non-zero sample
\* returns a buffer of peak 0.95.
C5_NonSilentInput ==
  (Accepted /\ returned.kind = "enc" /\ NonSilent(returned.input))
    => Peak(returned.result) = 950

\* C5: an accepted encode whose synthesis has written a non-zero sample
\* returns a buffer of peak 0.95.
C5_EncodePeak ==
  (Accepted /\ returned.kind = "enc" /\ NonSilent(returned.raw))
    => Peak(returned.result) = 950

\* An encode has scaled a synthesis whose peak was not 0.95 already.
C5_Witness ==
  /\ Accepted
  /\ returned.kind = "enc"
  /\ NonSilent(returned.raw)
  /\ Peak(returned.raw) # 950
  /\ Peak(returned.result) = 950

\* C6 as stated: every accepted decode of a buffer with a non-zero sample
\* returns a buffer of peak 0.85.
C6_NonSilentCipher ==
  (Accepted /\ returned.kind = "dec" /\ NonSilent(returned.input))
    => Peak(returned.result) = 850

\* C6: an accepted decode whose synthesis has written a non-zero sample
\* returns a buffer of peak 0.85.
C6_DecodePeak ==
  (Accepted /\ returned.kind = "dec" /\ NonSilent(returned.raw))
    => Peak(returned.result) = 850

\* A decode has scaled a synthesis whose peak was not 0.85 already.
C6_Witness ==
  /\ Accepted
  /\ returned.kind = "dec"
  /\ NonSilent(returned.raw)
  /\ Peak(returned.raw) # 850
  /\ Peak(returned.result) = 850

\* C7: an accepted encode of an all-zero buffer analyses every frame to
\* pitch 0, returns an all-zero buffer, and does not take the scaling
\* branch.
C7_SilentInput ==
  (Accepted /\ returned.kind = "enc" /\ ~NonSilent(returned.input))
    => /\ \A f \in 1..Len(returned.frames) : returned.frames[f].pitch = 0
       /\ ~Scaled(returned.raw)
       /\ returned.result = Zeros(Len(returned.input))

\* An encode of several all-zero frames has returned.
C7_Witness ==
  /\ Accepted
  /\ returned.kind = "enc"
  /\ ~NonSilent(returned.input)
  /\ Len(returned.frames) >= 2
  /\ encodedAudio = Zeros(Len(recordedAudio))

\* The frame decode's analysis builds from the window at start, up to the
\* pitch, which depends on the frames before.
DecWindowFrame(data, start) ==
  DecodedFrame(computeMagnitudeSpectrum(Slice(data, start)), 0)

\* C8: the frame list of an accepted call has floor((len - FFT_SIZE) /
\* HOP_SIZE) entries, entry f comes from the window at f * HOP_SIZE, and
\* every entry has NUM_BANDS band energies.
C8_FrameList ==
  Accepted =>
    /\ Len(returned.frames) = (Len(returned.input) - FFT_SIZE) \div HOP_SIZE
    /\ \A f \in 1..Len(returned.frames) :
         /\ Len(returned.frames[f].bandEnergies) = NUM_BANDS
         /\ returned.kind = "enc" =>
              returned.frames[f] =
                analyzeSpeechFrame(Slice(returned.input, (f - 1) * HOP_SIZE))
         /\ returned.kind = "dec" =>
              returned.frames[f].bandEnergies =
                DecWindowFrame(returned.input, (f - 1) * HOP_SIZE).bandEnergies

\* A call with three frames that differ has returned.
C8_Witness ==
  /\ Accepted
  /\ Len(returned.frames) >= 3
  /\ returned.frames[1] # returned.frames[2]
  /\ returned.frames[2] # returned.frames[3]

\* a is b up to one part in a hundred: the rounding of the model's
\* logarithm and power.
Close(a, b) == Abs(a - b) * 100 <= Abs(b)

\* C9: getMelBands returns NUM_BANDS bands with strictly increasing
\* centers, the first starting at 100 Hz and the last ending at
\* SPEECH_MAX_FREQ up to rounding, each band one step wide on the mel scale
\* and starting where the band before it ends.
C9_MelBands ==
  melDone =>
    /\ Len(melBands) = melN
    /\ Close(melBands[1].start, 100 * UNIT)
    /\ Close(melBands[melN].end, melMax * UNIT)
    /\ \A i \in 1..melN :
         /\ melBands[i].start < melBands[i].center
         /\ melBands[i].center < melBands[i].end
         /\ Close(hzToMel(melBands[i].end) - hzToMel(melBands[i].start),
                  MelStep(melN, melMax))
    /\ \A i \in 1..(melN - 1) :
         /\ melBands[i].center < melBands[i + 1].center
         /\ melBands[i].end = melBands[i + 1].start

\* getMelBands has returned a table of several bands.
C9_Witness ==
  /\ melDone
  /\ melN >= 3
  /\ Len(melBands) = melN
  /\ melBands[1].center < melBands[melN].center

\* C4: the step in which a call on a too-short buffer ends leaves the
\* stored recorded, encoded and decoded buffers as they were, returns null,
\* reports the error and puts the processing flag back to false.
C4_FailureNoSideEffect ==
  [][\A id \in CallIds :
       (/\ calls[id].pc = "wait"
        /\ Len(calls[id].input) < FFT_SIZE + HOP_SIZE
        /\ calls'[id] # calls[id])
         => /\ stored' = stored
            /\ returned'.error
            /\ returned'.result = NULL
            /\ returned'.input = calls[id].input
            /\ status' = "error_too_short"
            /\ isProcessing' = FALSE]_vars

\* A decode of a stored cipher has failed and the cipher is still stored.
C4_Witness ==
  /\ returned.error
  /\ returned.kind = "dec"
  /\ returned.result = NULL
  /\ encodedAudio # NULL
  /\ encodedAudio = returned.input
  /\ status = "error_too_short"
  /\ ~isProcessing

\* C10: an accepted call, whatever ran between its steps, returns the
\* frames and the output a call with the same input and the same random
\* draws returns when it runs without a yield.
C10_CallLocalState ==
  Accepted =>
    \E c \in Solo(returned.kind, returned.input, returned.seed) :
      /\ c.out = returned.result
      /\ c.frames = returned.frames

\* A call that another call has run between the steps of has returned a
\* buffer that is not silent.
C10_Witness ==
  /\ Accepted
  /\ returned.mixed
  /\ NonSilent(returned.result)

\* C11: in the buffer encode or decode returns, every sample with index
\* i >= (numFrames - 1) * HOP_SIZE is exactly 0, before and after the
\* normalisation.
C11_TailZero ==
  Accepted =>
    \A k \in 1..Len(returned.result) :
      (k - 1) >= (((Len(returned.input) - FFT_SIZE) \div HOP_SIZE) - 1) * HOP_SIZE
        => returned.result[k] = 0 /\ returned.raw[k] = 0

\* A call has returned a scaled buffer whose last synthesised sample is not
\* zero and whose tail is.
C11_Witness ==
  /\ Accepted
  /\ Scaled(returned.raw)
  /\ Len(returned.frames) >= 2
  /\ returned.result[(Len(returned.frames) - 1) * HOP_SIZE] # 0
  /\ returned.result[Len(returned.result)] = 0

\* The interpolated pitch of sample i of a frame list, and what the claim
\* lets the carrier phase advance by on that sample.
PitchAt(frames, i) ==
  Lerp(frames[(i \div HOP_SIZE) + 1].pitch, frames[(i \div HOP_SIZE) + 2].pitch,
       i % HOP_SIZE)

CarrierStep(frames, i) ==
  IF PitchAt(frames, i) > 50 * UNIT
  THEN TDiv(TWO_PI * TDiv(PitchAt(frames, i) * PITCH_MULTIPLIER, UNIT), SAMPLE_RATE)
  ELSE 0

CarrierSum(frames, n) == SumOver([i \in 1..n |-> CarrierStep(frames, i - 1)], 1, n)

\* C12: within one encode call the carrier phase is 0 until the synthesis
\* starts, and after n samples it is the sum, over the samples whose
\* interpolated pitch exceeds 50 Hz, of 2*pi*pitch*PITCH_MULTIPLIER/SAMPLE_RATE:
\* it is advanced on exactly those samples, left alone on the others, never
\* reset and so never decreases.
C12_CarrierPhase ==
  \A id \in CallIds :
    calls[id].kind = "enc" =>
      /\ calls[id].pc \in {"wait", "analyse"} => calls[id].phaseMain = 0
      /\ calls[id].pc = "synth" =>
           /\ calls[id].phaseMain = CarrierSum(calls[id].frames, calls[id].i)
           /\ \A n \in 1..calls[id].i :
                CarrierSum(calls[id].frames, n) >= CarrierSum(calls[id].frames, n - 1)

\* An encode is at a yield after four samples: the carrier sounded on the
\* first two, was silent on the third and sounded again on the fourth, and
\* the phase holds the sum of the three advances.
C12_Witness ==
  \E id \in CallIds :
    /\ calls[id].kind = "enc"
    /\ calls[id].pc = "synth"
    /\ calls[id].i = 4
    /\ CarrierStep(calls[id].frames, 0) > 0
    /\ CarrierStep(calls[id].frames, 1) > 0
    /\ CarrierStep(calls[id].frames, 2) = 0
    /\ CarrierStep(calls[id].frames, 3) > 0
    /\ calls[id].phaseMain = CarrierStep(calls[id].frames, 0)
          + CarrierStep(calls[id].frames, 1) + CarrierStep(calls[id].frames, 3)

\* The correlation sums of the periods from lo to hi - 1, as the array
\* whose entry p - lo + 1 belongs to period p.
Correlations(buffer, lo, hi) ==
  AsArray([t \in 1..(hi - lo) |-> Correlation(buffer, lo + t - 1)])

\* The periods from lo to hi - 1 whose correlation sum is positive and
\* maximal among them.
BestPeriods(buffer, lo, hi) ==
  LET corr == Correlations(buffer, lo, hi)
  IN {lo + t - 1 : t \in {u \in 1..(hi - lo) :
                            /\ corr[u] > 0
                            /\ \A v \in 1..(hi - lo) : corr[v] <= corr[u]}}

SetMin(S) == CHOOSE x \in S : \A y \in S : x <= y

\* C13: extractPitch returns 0 when the window's RMS is below 0.01,
\* whatever the correlations; otherwise sampleRate / bestPeriod for the
\* smallest of the candidate periods whose correlation sum is maximal, and
\* 0 when no candidate period has a positive correlation sum.
C13_ExtractPitch ==
  (probe.fn = "extractPitch" /\ probe.done) =>
    LET buffer == probe.args[1]
        sampleRate == probe.args[2]
        best == BestPeriods(buffer, sampleRate \div 800, sampleRate \div 70)
    IN probe.out = IF Rms(buffer) < 10 THEN 0
                   ELSE IF best = {} THEN 0
                   ELSE (sampleRate * UNIT) \div SetMin(best)

\* extractPitch has returned the pitch of the smaller of two periods of
\* equal, maximal correlation.
C13_Witness ==
  /\ probe.fn = "extractPitch"
  /\ probe.done
  /\ Rms(probe.args[1]) >= 10
  /\ Cardinality(BestPeriods(probe.args[1], probe.args[2] \div 800,
                             probe.args[2] \div 70)) >= 2
  /\ probe.out = (probe.args[2] * UNIT)
                   \div SetMin(BestPeriods(probe.args[1], probe.args[2] \div 800,
                                           probe.args[2] \div 70))

\* Whether the window is loud enough and floor(sampleRate / 70) is its only
\* period of positive correlation sum from floor(sampleRate / 800) on.
OnlyLastPeriod(buffer, sampleRate) ==
  /\ Rms(buffer) >= 10
  /\ Correlation(buffer, sampleRate \div 70) > 0
  /\ BestPeriods(buffer, sampleRate \div 800, sampleRate \div 70) = {}

\* C14 as claimed: the search takes floor(sampleRate / 70) as a candidate,
\* so a window whose only positively correlated period is that one gets the
\* pitch sampleRate / floor(sampleRate / 70).
C14_ClosedRange ==
  (probe.fn = "extractPitch" /\ probe.done
     /\ OnlyLastPeriod(probe.args[1], probe.args[2]))
    => probe.out = (probe.args[2] * UNIT) \div (probe.args[2] \div 70)

\* C14: the search takes every period p with floor(sampleRate / 800) <= p <
\* floor(sampleRate / 70): a loud window with a positive correlation sum at
\* one of them gets a pitch that is sampleRate over such a period, and a
\* loud window whose only positively correlated period is
\* floor(sampleRate / 70) gets the pitch 0.
C14_HalfOpenRange ==
  (probe.fn = "extractPitch" /\ probe.done /\ Rms(probe.args[1]) >= 10) =>
    LET buffer == probe.args[1]
        sampleRate == probe.args[2]
        cands == (sampleRate \div 800)..((sampleRate \div 70) - 1)
    IN /\ \A p \in cands :
            Correlation(buffer, p) > 0 =>
              \E q \in cands : /\ Correlation(buffer, q) >= Correlation(buffer, p)
                                /\ probe.out = (sampleRate * UNIT) \div q
       /\ (\A p \in cands : Correlation(buffer, p) <= 0) => probe.out = 0

\* extractPitch has returned 0 for a loud window whose only positively
\* correlated period is floor(sampleRate / 70).
C14_Witness ==
  /\ probe.fn = "extractPitch"
  /\ probe.done
  /\ OnlyLastPeriod(probe.args[1], probe.args[2])
  /\ probe.out = 0

\* The first bin of maximal magnitude among the bins lo..hi that the
\* spectrum has, and 0 when none of them is above 0.
FirstMaxBin(magnitudes, lo, hi) ==
  LET bins == {k \in lo..hi : k < Len(magnitudes) /\ At(magnitudes, k) > 0}
      top == {k \in bins : \A j \in bins : At(magnitudes, j) <= At(magnitudes, k)}
  IN IF bins = {} THEN 0 ELSE SetMin(top)

\* The pitch the carrier recovery gives when peakBin is the carrier peak.
PitchOfPeak(magnitudes, peakBin) ==
  IF peakBin = 0 \/ At(magnitudes, peakBin) <= 50 THEN 0
  ELSE LET refinedBin == RefinedBin(magnitudes, peakBin)
       IN IF IsFinite(refinedBin)
          THEN TDiv(TDiv(refinedBin * SAMPLE_RATE, FFT_SIZE), PITCH_MULTIPLIER)
          ELSE refinedBin

\* C16 as claimed: the carrier peak is the bin of maximal magnitude among
\* the bins from that of 600 Hz to that of 5000 Hz, the latter included.
C16_Inclusive ==
  (probe.fn = "rawPitch" /\ probe.done) =>
    probe.out.pitch =
      PitchOfPeak(probe.args[1],
                  FirstMaxBin(probe.args[1], (600 * FFT_SIZE) \div SAMPLE_RATE,
                              (5000 * FFT_SIZE) \div SAMPLE_RATE))

\* C16: the carrier peak is the first bin of maximal magnitude among the
\* bins from floor(600 / binSize) up to, and not including,
\* floor(5000 / binSize); the raw pitch is 0 when that magnitude does not
\* exceed 0.05 and the refined peak bin times the bin size over
\* PITCH_MULTIPLIER otherwise.
C16_CarrierPeak ==
  (probe.fn = "rawPitch" /\ probe.done) =>
    probe.out.pitch =
      PitchOfPeak(probe.args[1],
                  FirstMaxBin(probe.args[1], (600 * FFT_SIZE) \div SAMPLE_RATE,
                              ((5000 * FFT_SIZE) \div SAMPLE_RATE) - 1))

\* The spectrum's largest magnitude is in the bin of 5000 Hz alone, a
\* smaller one above 0.05 is inside the range, and the pitch is that of the
\* smaller one.
C16_Witness ==
  /\ probe.fn = "rawPitch"
  /\ probe.done
  /\ At(probe.args[1], (5000 * FFT_SIZE) \div SAMPLE_RATE) = 200
  /\ probe.out.maxMag = 100
  /\ probe.out.peakBin < (5000 * FFT_SIZE) \div SAMPLE_RATE
  /\ probe.out.pitch > 0

\* C17: whenever the refinement runs on magnitudes [a, b, a] around the
\* peak bin, the refined bin is the peak bin exactly.
C17_SymmetricOffset ==
  (/\ probe.fn = "rawPitch"
   /\ probe.done
   /\ probe.out.maxMag > 50
   /\ probe.out.peakBin > 0
   /\ probe.out.peakBin < Len(probe.args[1]) - 1
   /\ At(probe.args[1], probe.out.peakBin - 1) = At(probe.args[1], probe.out.peakBin + 1))
    => probe.out.refinedBin = probe.out.peakBin * UNIT

\* The refinement has run on [a, a, a], the peak being the first bin of the
\* search, and the refined bin is NaN.
C17_Flat ==
  /\ probe.fn = "rawPitch"
  /\ probe.done
  /\ probe.out.maxMag > 50
  /\ probe.out.peakBin = (600 * FFT_SIZE) \div SAMPLE_RATE
  /\ At(probe.args[1], probe.out.peakBin - 1) = probe.out.maxMag
  /\ At(probe.args[1], probe.out.peakBin + 1) = probe.out.maxMag
  /\ probe.out.refinedBin = NAN
  /\ probe.out.pitch = NAN

\* The raw pitches of frames f-4..f of a list (f counted from 1), with 0
\* for the frames before the first.
LastFive(raw, f) == [j \in 1..5 |-> IF f - 5 + j >= 1 THEN raw[f - 5 + j] ELSE 0]

\* The values that stand third when five values are put in order.
ThirdOfFive(win) ==
  {win[j] : j \in {k \in 1..5 :
                     /\ Cardinality({m \in 1..5 : win[m] < win[k]}) <= 2
                     /\ Cardinality({m \in 1..5 : win[m] <= win[k]}) >= 3}}

\* C15: the smoothing buffer always holds five values; the pitch stored
\* for frame f is the third of the five sorted raw pitches of frames
\* f-4..f; and when at most two of those five are non-zero the stored
\* pitch is 0.
C15_MedianOfFive ==
  probe.fn = "smooth" =>
    /\ Len(probe.out.pitchBuf) = 5
    /\ \A f \in 1..Len(probe.args) :
         /\ probe.out.pitch[f] \in ThirdOfFive(LastFive(probe.args, f))
         /\ Cardinality({j \in 1..5 : LastFive(probe.args, f)[j] # 0}) <= 2
              => probe.out.pitch[f] = 0

\* Of the five raw pitches up to some frame one is NaN and four are 0, and
\* the pitch stored for the frame is NaN.
C15_NaNStored ==
  /\ probe.fn = "smooth"
  /\ \E f \in 1..Len(probe.args) :
       /\ Cardinality({j \in 1..5 : LastFive(probe.args, f)[j] = NAN}) = 1
       /\ Cardinality({j \in 1..5 : LastFive(probe.args, f)[j] = 0}) = 4
       /\ probe.out.pitch[f] = NAN

\* The time-interpolated energy of band b (from 0), the last band standing
\* in for a band above it.
EnergyAt(frame, next, r, b) ==
  Lerp(frame.bandEnergies[Min(b, NUM_BANDS - 1) + 1],
       next.bandEnergies[Min(b, NUM_BANDS - 1) + 1], r)

\* The energies of the bands below and above position pos, interpolated.
Interpolated(frame, next, r, pos) ==
  TDiv(EnergyAt(frame, next, r, pos \div UNIT) * (UNIT - (pos % UNIT))
       + EnergyAt(frame, next, r, (pos \div UNIT) + 1) * (pos % UNIT), UNIT)

\* C18 as claimed: a harmonic whose band-index position lies in
\* [0, NUM_BANDS) gets the interpolation of the two nearest bands' energies,
\* and amplitude 0 only outside [0, NUM_BANDS).
C18_WholeRange ==
  (probe.fn = "harmonicAmp" /\ probe.done) =>
    probe.out.amp =
      IF probe.out.bandIdx >= 0 /\ probe.out.bandIdx < NUM_BANDS * UNIT
      THEN Interpolated(probe.args[1], probe.args[2], probe.args[3], probe.out.bandIdx)
      ELSE 0

\* C18: a harmonic whose band-index position lies in [0, NUM_BANDS - 1)
\* gets the interpolation of the energies of bands floor(position) and
\* floor(position) + 1, and every other harmonic, those in
\* [NUM_BANDS - 1, NUM_BANDS) included, gets amplitude 0; the bands read
\* are inside 0..NUM_BANDS-1.
C18_InnerRange ==
  (probe.fn = "harmonicAmp" /\ probe.done) =>
    /\ probe.out.amp =
         IF probe.out.bandIdx >= 0 /\ probe.out.bandIdx < (NUM_BANDS - 1) * UNIT
         THEN Interpolated(probe.args[1], probe.args[2], probe.args[3],
                           probe.out.bandIdx)
         ELSE 0
    /\ (probe.out.bandIdx >= 0 /\ probe.out.bandIdx < (NUM_BANDS - 1) * UNIT)
         => (probe.out.bandIdx \div UNIT) + 1 <= NUM_BANDS - 1

\* A harmonic lies in [NUM_BANDS - 1, NUM_BANDS), the last band's energy is
\* not 0 in either frame, and the harmonic's amplitude is 0.
C18_Witness ==
  /\ probe.fn = "harmonicAmp"
  /\ probe.done
  /\ probe.out.bandIdx >= (NUM_BANDS - 1) * UNIT
  /\ probe.out.bandIdx < NUM_BANDS * UNIT
  /\ probe.args[1].bandEnergies[NUM_BANDS] > 0
  /\ probe.args[2].bandEnergies[NUM_BANDS] > 0
  /\ probe.out.amp = 0

\* The interpolated pitch of decode's sample i.
DecPitchAt(frames, i) ==
  LerpJs(frames[(i \div HOP_SIZE) + 1].pitch, frames[(i \div HOP_SIZE) + 2].pitch,
         i % HOP_SIZE)

\* Whether the sample of pitch p is voiced and harmonic h is one of those
\* it sums.
Sounded(p, h) ==
  /\ p # NAN
  /\ p > 60 * UNIT
  /\ h >= 1
  /\ h <= 40
  /\ p # INF
  /\ h * p <= SPEECH_MAX_FREQ * UNIT

C20_FrameReads ==
  /\ \A id \in CallIds :
       calls[id].pc = "synth" =>
         /\ Len(calls[id].frames) = calls[id].numFrames
         /\ \A i \in 0..(calls[id].i - 1) :
              /\ i \div HOP_SIZE >= 0
              /\ (i \div HOP_SIZE) + 1 <= calls[id].numFrames - 1
  /\ (returned.kind # "none" /\ Len(returned.input) >= FFT_SIZE + HOP_SIZE) =>
       /\ ~returned.error
       /\ Len(returned.frames) = 1 => \A k \in 1..Len(returned.raw) : returned.raw[k] = 0

\* A decode is at a yield having synthesised the last sample before the
\* break, the one that reads the last frame of the list.
C20_Witness ==
  \E id \in CallIds :
    /\ calls[id].kind = "dec"
    /\ calls[id].pc = "synth"
    /\ calls[id].numFrames >= 3
    /\ calls[id].i = (calls[id].numFrames - 1) * HOP_SIZE
    /\ ((calls[id].i - 1) \div HOP_SIZE) + 1 = Len(calls[id].frames) - 1

C22_ProcessingFlag ==
  (\E id \in CallIds : calls[id].pc # "free") => isProcessing

\* A call started by the recorder's pipeline is still running after a clicked
\* call has finished and cleared the flag, and the encode button is enabled.
C22_FlagCleared ==
  /\ \E id \in CallIds : calls[id].pc # "free" /\ calls[id].auto
  /\ returned # NoReturn
  /\ ~returned.auto
  /\ ~isProcessing
  /\ recordedAudio # NULL

\* A decode call is in flight in slot j.
DecodeRuns(cs, j) == cs[j].kind = "dec" /\ cs[j].pc # "free"

\* C23: the step in which the pipeline's encode ends is the only step in
\* which the pipeline starts a decode: when encode has returned a buffer the
\* decode starts there, on exactly that buffer; when encode has failed no
\* decode starts and decodedAudio keeps its value.  Every other decode is
\* started by a click on the stored cipher.
C23_PipelineOrder ==
  [][\A id \in CallIds :
       /\ (calls[id].auto /\ ~calls'[id].auto)
            => /\ returned'.kind = "enc"
               /\ returned'.auto
               /\ returned'.input = calls[id].input
               /\ IF returned'.error
                  THEN /\ returned'.result = NULL
                       /\ calls'[id] = FreeCall
                       /\ decodedAudio' = decodedAudio
                       /\ \A j \in CallIds :
                            DecodeRuns(calls', j) => DecodeRuns(calls, j)
                  ELSE /\ DecodeRuns(calls', id)
                       /\ calls'[id].pc = "wait"
                       /\ calls'[id].input = returned'.result
                       /\ decodedAudio' = decodedAudio
       /\ (DecodeRuns(calls', id) /\ ~DecodeRuns(calls, id) /\ ~calls[id].auto)
            => /\ ~isProcessing
               /\ events' = events + 1
               /\ calls'[id].input = encodedAudio]_vars

\* The pipeline's encode has returned a sounding cipher that differs from the
\* captured buffer, and the decode it started is waiting on that cipher.
C23_Witness ==
  /\ returned.kind = "enc"
  /\ returned.auto
  /\ ~returned.error
  /\ NonSilent(returned.result)
  /\ returned.result # returned.input
  /\ \E id \in CallIds :
       /\ DecodeRuns(calls, id)
       /\ calls[id].pc = "wait"
       /\ calls[id].input = returned.result

====
